---- MODULE Spec2Model ----
(***************************************************************************)
(* ubipoller: poll the Ubiquiti ISP-metrics API on a ticker, extract the   *)
(* latest latency sample of every site and publish it to MQTT under        *)
(* {baseTopic}/{siteId}/latency.  Model of main.go: main, NewApp, App.Run, *)
(* App.fetchAndPublishMetrics, App.extractLatestLatencyMetrics,            *)
(* UbiquitiClient.GetISPMetrics, MQTTPublisher.PublishLatency/Disconnect.  *)
(*                                                                         *)
(* Two goroutines: the runner (main -> Run) whose position is pc, and the  *)
(* signal goroutine of main (handlerPc) that calls cancel().  The ticker   *)
(* and the OS signal are the environment.  Time is counted in ticker       *)
(* intervals: the clock reads ticksFired.                                  *)
(***************************************************************************)
EXTENDS Integers, Sequences, FiniteSets, TLC

(* ------------------------------ bounds -------------------------------- *)
MaxSeries == 2      \* series per envelope
MaxPeriods == 2     \* periods per series
MaxTicks == 2       \* ticker firings in one execution

(* --------------------------- input domains ---------------------------- *)
BaseTopics == {"a", "a/b"}
\* stands for the default topic 'ubiquiti/isp-metrics'
DefaultTopic == "a/b"
SiteIds == {"c", "b/c"}
HostIds == {"h1"}

WanA == [AvgLatency |-> 10, MaxLatency |-> 20, ISPName |-> "ispA", ISPAsn |-> "as1"]
WanB == [AvgLatency |-> 30, MaxLatency |-> 40, ISPName |-> "ispB", ISPAsn |-> "as2"]

PeriodA == [Data |-> [WAN |-> WanA], MetricTime |-> "t1", Version |-> "v1"]
PeriodB == [Data |-> [WAN |-> WanB], MetricTime |-> "t2", Version |-> "v1"]

\* type Period
Period == { PeriodA, PeriodB }

SeqsUpTo(S, n) == UNION { [1..k -> S] : k \in 0..n }

\* type MetricData
MetricData ==
    [MetricType : {"5m"}, Periods : SeqsUpTo(Period, MaxPeriods),
     SiteId : SiteIds, HostId : HostIds]

\* type ISPMetrics
ISPMetrics == [Data : SeqsUpTo(MetricData, MaxSeries)]

\* The envelopes the API serves in the scheduler specification: every
\* series has no period or one
FetchBodies ==
    { m \in ISPMetrics : \A i \in 1..Len(m.Data) :
         m.Data[i].Periods \in { << >>, << PeriodA >> } }

NilMetrics == [nil |-> TRUE]
NoResponse == [kind |-> "none"]

\* What the API server and the network would answer to one GET: a 200 with
\* a decodable envelope, a non-200 status, a transport failure, or a 200
\* whose body does not decode.
Responses ==
    [kind : {"ok"}, body : FetchBodies]
      \cup { [kind |-> "status"], [kind |-> "network"], [kind |-> "decode"] }

(* ------------------------------- state -------------------------------- *)
VARIABLES
    MqttTopic,       \* cli.MqttTopic, the base topic
    legacy,          \* the generation of fetchAndPublishMetrics that publishes
                     \* the whole envelope with MQTTPublisher.Publish
    connectErr,      \* error of NewApp: "none" before the call, "nil", "error"
    exitCode,        \* exit status of the process, -1 while it runs
    pc,              \* position of the runner goroutine (main -> Run)
    connected,       \* the MQTT client is connected
    sigChan,         \* number of signals buffered in sigChan (capacity 1)
    handlerPc,       \* signal goroutine: "idle", "waiting", "done"
    ctxDone,         \* appCtx has been cancelled
    cancelPc,        \* history: the runner's pc when cancel() was called
    cancelIdx,       \* history: the loop index when cancel() was called
    ticker,          \* "none", "running", "stopped"
    tickPending,     \* a tick is buffered in ticker.C (capacity 1)
    ticksFired,      \* number of times the ticker fired; also the clock
    cycles,          \* number of calls of fetchAndPublishMetrics
    requests,        \* number of calls of httpClient.Do
    active,          \* history: calls of fetchAndPublishMetrics in progress
    resp,            \* the answer the request in flight would get
    ctxAtStart,      \* ctx was already cancelled when the request was made
    fetchErr,        \* error of the last GetISPMetrics, "none" if nil
    metrics,         \* the decoded *ISPMetrics of the cycle
    latencyMetrics,  \* the batch extracted in the cycle
    batchCycle,      \* history: the cycle whose envelope the batch is from
    idx,             \* range index of the publish loop (1-based)
    attempts,        \* history: publish calls of the cycle, in call order
    cycleErr,        \* last return of fetchAndPublishMetrics
    prevCycleErr,    \* history: cycleErr of the cycle before
    disconnects,     \* number of calls of MQTTPublisher.Disconnect
    runResult        \* return value of Run: "none" until it returns

vars ==
    << MqttTopic, legacy, connectErr, exitCode, pc, connected, sigChan,
       handlerPc, ctxDone, cancelPc, cancelIdx, ticker, tickPending,
       ticksFired, cycles, requests, active, resp, ctxAtStart, fetchErr, metrics,
       latencyMetrics, batchCycle, idx, attempts, cycleErr, prevCycleErr,
       disconnects, runResult >>

cfgVars == << MqttTopic, legacy >>
mainVars == << connectErr, exitCode >>
envVars == << sigChan, handlerPc, ctxDone, cancelPc, cancelIdx >>
tickVars == << ticker, tickPending, ticksFired >>
cycleVars ==
    << cycles, requests, active, resp, ctxAtStart, fetchErr, metrics,
       latencyMetrics,
       batchCycle, idx, attempts, cycleErr, prevCycleErr >>

\* time.Now(), in ticker intervals
Now == ticksFired

(* ------------------------- pure functions ----------------------------- *)

\* The LatencyMetric literal of extractLatestLatencyMetrics
LatencyMetric(data, latestPeriod, t) ==
    [SiteId      |-> data.SiteId,
     HostId      |-> data.HostId,
     Timestamp   |-> latestPeriod.MetricTime,
     AvgLatency  |-> latestPeriod.Data.WAN.AvgLatency,
     MaxLatency  |-> latestPeriod.Data.WAN.MaxLatency,
     ISPName     |-> latestPeriod.Data.WAN.ISPName,
     ISPAsn      |-> latestPeriod.Data.WAN.ISPAsn,
     PublishedAt |-> t]

\* Variant: the newest period is taken to be the last of the list
LatestPeriod_Last(periods) == periods[Len(periods)]

\* Which period of a series is the latest one
LatestPeriod(periods) == periods[1]

\* Variant: a site that already has a record in the batch is skipped
ExtractOne_Dedup(acc, data, t) ==
    IF \/ Len(data.Periods) = 0
       \/ \E k \in 1..Len(acc) : acc[k].SiteId = data.SiteId
      THEN acc
      ELSE Append(acc, LatencyMetric(data, LatestPeriod(data.Periods), t))

\* Variant: a series without periods gives a record of zero values
ExtractOne_ZeroRecord(acc, data, t) ==
    Append(acc, LatencyMetric(data,
                  IF Len(data.Periods) = 0
                    THEN [Data |-> [WAN |-> [AvgLatency |-> 0,
                                             MaxLatency |-> 0,
                                             ISPName |-> "",
                                             ISPAsn |-> ""]],
                          MetricTime |-> "", Version |-> ""]
                    ELSE LatestPeriod(data.Periods), t))

\* One iteration of the range loop over metrics.Data
ExtractOne(acc, data, t) ==
    IF Len(data.Periods) = 0
      THEN acc
      ELSE Append(acc, LatencyMetric(data, LatestPeriod(data.Periods), t))

RECURSIVE ExtractFrom(_, _, _, _)

\* Variant: a series without periods ends the loop (break for continue)
ExtractFrom_BreakOnEmpty(acc, series, i, t) ==
    IF i > Len(series) \/ Len(series[i].Periods) = 0
      THEN acc
      ELSE ExtractFrom(ExtractOne(acc, series[i], t), series, i + 1, t)

ExtractFrom(acc, series, i, t) ==
    IF i > Len(series)
      THEN acc
      ELSE ExtractFrom(ExtractOne(acc, series[i], t), series, i + 1, t)

extractLatestLatencyMetrics(m, t) == ExtractFrom(<< >>, m.Data, 1, t)

\* json.Marshal(latencyMetric): the struct tags of LatencyMetric
MarshalLatency(lm) ==
    [siteId      |-> lm.SiteId,
     hostId      |-> lm.HostId,
     timestamp   |-> lm.Timestamp,
     avgLatency  |-> lm.AvgLatency,
     maxLatency  |-> lm.MaxLatency,
     ispName     |-> lm.ISPName,
     ispAsn      |-> lm.ISPAsn,
     publishedAt |-> lm.PublishedAt]

\* json.Marshal(metrics): the struct tags of ISPMetrics, MetricData, Period,
\* PeriodData and WANData
MarshalMetrics(m) ==
    [data |->
       [i \in 1..Len(m.Data) |->
          [metricType |-> m.Data[i].MetricType,
           periods |->
             [j \in 1..Len(m.Data[i].Periods) |->
                [data |-> [wan |->
                     [avgLatency |-> m.Data[i].Periods[j].Data.WAN.AvgLatency,
                      ispAsn     |-> m.Data[i].Periods[j].Data.WAN.ISPAsn,
                      ispName    |-> m.Data[i].Periods[j].Data.WAN.ISPName,
                      maxLatency |-> m.Data[i].Periods[j].Data.WAN.MaxLatency]],
                 metricTime |-> m.Data[i].Periods[j].MetricTime,
                 version    |-> m.Data[i].Periods[j].Version]],
           siteId |-> m.Data[i].SiteId,
           hostId |-> m.Data[i].HostId]]]

\* Variant: the topic of the legacy Publish, without the site segment
LatencyTopic_NoSite(baseTopic, siteId) == baseTopic \o "/latency"

\* fmt.Sprintf("%s/%s/latency", baseTopic, latencyMetric.SiteId)
LatencyTopic(baseTopic, siteId) == baseTopic \o "/" \o siteId \o "/latency"

\* Variant: the error of Decode is dropped and the zero envelope returned
NaturalResult_DecodeIgnored(r) ==
    IF r.kind = "ok"
      THEN [err |-> "none", metrics |-> r.body]
      ELSE IF r.kind = "decode"
             THEN [err |-> "none", metrics |-> [Data |-> << >>]]
             ELSE [err |-> r.kind, metrics |-> NilMetrics]

\* Variant: the status code is not checked, a non-200 answer is returned
\* as an envelope without data
NaturalResult_NoStatusCheck(r) ==
    IF r.kind = "ok"
      THEN [err |-> "none", metrics |-> r.body]
      ELSE IF r.kind = "status"
             THEN [err |-> "none", metrics |-> [Data |-> << >>]]
             ELSE [err |-> r.kind, metrics |-> NilMetrics]

\* The result GetISPMetrics returns for an answer when nothing cancels it
NaturalResult(r) ==
    IF r.kind = "ok"
      THEN [err |-> "none", metrics |-> r.body]
      ELSE [err |-> r.kind, metrics |-> NilMetrics]

CanceledResult == [err |-> "canceled", metrics |-> NilMetrics]

\* Variant: the request is built without the context
GetISPMetrics_IgnoresCtx(r, cancelledAtStart, cancelledNow) == { NaturalResult(r) }

\* GetISPMetrics: the request carries ctx (NewRequestWithContext).  A ctx
\* cancelled before Do fails the request; a ctx cancelled while the request
\* or the body read is in flight may or may not be noticed before the call
\* completes.
GetISPMetrics(r, cancelledAtStart, cancelledNow) ==
    IF cancelledAtStart
      THEN { CanceledResult }
      ELSE IF cancelledNow
             THEN { NaturalResult(r), CanceledResult }
             ELSE { NaturalResult(r) }

\* Variant: the publish is given up once ctx is cancelled
PublishResult_Cancellable(brokerOk, cancelled) ==
    IF brokerOk /\ ~cancelled THEN "ok" ELSE "err"

\* PublishLatency takes no context: token.Wait() and token.Error() give
\* what the broker client reports, whatever the state of ctx
PublishResult(brokerOk, cancelled) == IF brokerOk THEN "ok" ELSE "err"

\* Variant: a record whose publish failed is tried again
NextIndex_RetryOnError(result, i, n) == IF result = "err" THEN i ELSE i + 1

\* Variant: the loop is left on the first publish error
NextIndex_BreakOnError(result, i, n) == IF result = "err" THEN n + 1 ELSE i + 1

\* The range loop of fetchAndPublishMetrics: the index after a publish
\* returned ("continue" on error, fall through otherwise)
NextIndex(result, i, n) == i + 1

(* ------------------------------- Init --------------------------------- *)
Start(mode, topics) ==
    /\ MqttTopic \in topics
    /\ legacy = mode
    /\ connectErr = "none"
    /\ exitCode = -1
    /\ batchCycle = 0
    /\ pc = "main"
    /\ connected = FALSE
    /\ sigChan = 0
    /\ handlerPc = "idle"
    /\ ctxDone = FALSE
    /\ cancelPc = "none"
    /\ cancelIdx = 0
    /\ ticker = "none"
    /\ tickPending = FALSE
    /\ ticksFired = 0
    /\ cycles = 0
    /\ requests = 0
    /\ active = 0
    /\ resp = NoResponse
    /\ ctxAtStart = FALSE
    /\ fetchErr = "none"
    /\ metrics = NilMetrics
    /\ latencyMetrics = << >>
    /\ idx = 1
    /\ attempts = << >>
    /\ cycleErr = "none"
    /\ prevCycleErr = "none"
    /\ disconnects = 0
    /\ runResult = "none"

\* The program of src/main.go, with the default base topic
Init == Start(FALSE, {DefaultTopic})

\* The program of the whole-envelope generation
LegacyInit == Start(TRUE, BaseTopics)

(* ------------------------------ actions -------------------------------- *)

\* Variant: the connect error is logged and the application starts anyway
NewApp_IgnoreConnectError ==
    /\ pc = "main"
    /\ \E ok \in BOOLEAN :
         /\ connected' = ok
         /\ connectErr' = IF ok THEN "nil" ELSE "error"
         /\ handlerPc' = "waiting"
         /\ pc' = "run"
    /\ UNCHANGED << cfgVars, exitCode, sigChan, ctxDone, cancelPc, cancelIdx,
                    tickVars, cycleVars, disconnects, runResult >>

\* main: NewApp -> NewMQTTPublisher connects; on error Fatal.  On success
\* the context, sigChan and the signal goroutine are set up and Run is called.
NewApp ==
    /\ pc = "main"
    /\ \E ok \in BOOLEAN :
         IF ok
           THEN /\ connected' = TRUE
                /\ connectErr' = "nil"
                /\ handlerPc' = "waiting"
                /\ pc' = "run"
                /\ UNCHANGED exitCode
           ELSE /\ connectErr' = "error"
                /\ exitCode' = 1
                /\ pc' = "fatal"
                /\ UNCHANGED << connected, handlerPc >>
    /\ UNCHANGED << cfgVars, sigChan, ctxDone, cancelPc, cancelIdx,
                    tickVars, cycleVars, disconnects, runResult >>

\* Variant: no initial fetch, the first cycle waits for the first tick
RunStart_NoInitialFetch ==
    /\ pc = "run"
    /\ ticker' = "running"
    /\ pc' = "select"
    /\ UNCHANGED << cfgVars, mainVars, connected, envVars, tickPending, ticksFired,
                    cycleVars, disconnects, runResult >>

\* Run up to the initial fetch: time.NewTicker
RunStart ==
    /\ pc = "run"
    /\ ticker' = "running"
    /\ pc' = "cycle"
    /\ UNCHANGED << cfgVars, mainVars, connected, envVars, tickPending, ticksFired,
                    cycleVars, disconnects, runResult >>

\* The OS delivers SIGINT/SIGTERM: signal.Notify does a non-blocking send on
\* sigChan (capacity 1), so a signal that finds the buffer full is dropped.
Signal ==
    /\ handlerPc # "idle"
    /\ pc \notin {"returned", "exited"}
    /\ sigChan' = 1
    /\ UNCHANGED << cfgVars, mainVars, pc, connected, handlerPc, ctxDone, cancelPc,
                    cancelIdx, tickVars, cycleVars, disconnects, runResult >>

\* Variant: the signal goroutine disconnects the publisher itself as well
SignalHandler_Disconnects ==
    /\ handlerPc = "waiting"
    /\ sigChan = 1
    /\ sigChan' = 0
    /\ handlerPc' = "done"
    /\ ctxDone' = TRUE
    /\ cancelPc' = pc
    /\ cancelIdx' = idx
    /\ pc' = IF pc = "parked" THEN "shutdown" ELSE pc
    /\ disconnects' = disconnects + 1
    /\ connected' = FALSE
    /\ UNCHANGED << cfgVars, mainVars, tickVars, cycleVars, runResult >>

\* The signal goroutine: <-sigChan; cancel().  A runner blocked in the
\* select is woken by the close of ctx.Done().
SignalHandler ==
    /\ handlerPc = "waiting"
    /\ sigChan = 1
    /\ sigChan' = 0
    /\ handlerPc' = "done"
    /\ ctxDone' = TRUE
    /\ cancelPc' = pc
    /\ cancelIdx' = idx
    /\ pc' = IF pc = "parked" THEN "shutdown" ELSE pc
    /\ UNCHANGED << cfgVars, mainVars, connected, tickVars, cycleVars, disconnects,
                    runResult >>

\* Variant: the cycle is started by the timer itself, wherever the runner is
Tick_StartsCycle ==
    /\ ticker = "running"
    /\ ticksFired < MaxTicks
    /\ ticksFired' = ticksFired + 1
    /\ pc \in {"parked", "select", "fetching", "extract", "publish", "publishing"}
    /\ pc' = "cycle"
    /\ UNCHANGED << cfgVars, mainVars, connected, envVars, ticker, tickPending,
                    cycleVars, disconnects, runResult >>

\* The ticker fires: a runner blocked in the select receives the tick
\* directly; otherwise the tick is buffered in ticker.C, or dropped when
\* one is already buffered.
Tick ==
    /\ ticker = "running"
    /\ ticksFired < MaxTicks
    /\ ticksFired' = ticksFired + 1
    /\ IF pc = "parked"
         THEN /\ pc' = "cycle"
              /\ UNCHANGED tickPending
         ELSE /\ tickPending' = TRUE
              /\ UNCHANGED pc
    /\ UNCHANGED << cfgVars, mainVars, connected, envVars, ticker, cycleVars,
                    disconnects, runResult >>

\* Variant: the Done case stops the ticker first, before the Disconnect
SelectDone_StopsTicker ==
    /\ pc = "select"
    /\ ctxDone
    /\ ticker' = "stopped"
    /\ pc' = "shutdown"
    /\ UNCHANGED << cfgVars, mainVars, connected, envVars, tickPending, ticksFired,
                    cycleVars, disconnects, runResult >>

\* Variant: the select has no ctx.Done() case and blocks for the next tick
SelectDone_Ignore ==
    /\ pc = "select"
    /\ ctxDone
    /\ pc' = "parked"
    /\ UNCHANGED << cfgVars, mainVars, connected, envVars, tickVars, cycleVars,
                    disconnects, runResult >>

\* select, case <-ctx.Done() ready (chosen at random when a tick is
\* buffered as well)
SelectDone ==
    /\ pc = "select"
    /\ ctxDone
    /\ pc' = "shutdown"
    /\ UNCHANGED << cfgVars, mainVars, connected, envVars, tickVars, cycleVars,
                    disconnects, runResult >>

\* Variant: the tick taken by the select stays in the channel
SelectTick_KeepsTick ==
    /\ pc = "select"
    /\ tickPending
    /\ pc' = "cycle"
    /\ UNCHANGED << cfgVars, mainVars, connected, envVars, tickVars,
                    cycleVars, disconnects, runResult >>

\* select, case <-ticker.C ready
SelectTick ==
    /\ pc = "select"
    /\ tickPending
    /\ tickPending' = FALSE
    /\ pc' = "cycle"
    /\ UNCHANGED << cfgVars, mainVars, connected, envVars, ticker, ticksFired,
                    cycleVars, disconnects, runResult >>

\* select, no case ready: the goroutine blocks
SelectPark ==
    /\ pc = "select"
    /\ ~ctxDone
    /\ ~tickPending
    /\ pc' = "parked"
    /\ UNCHANGED << cfgVars, mainVars, connected, envVars, tickVars, cycleVars,
                    disconnects, runResult >>

\* fetchAndPublishMetrics is called and GetISPMetrics issues the request
FetchStart ==
    /\ pc = "cycle"
    /\ cycles' = cycles + 1
    /\ requests' = requests + 1
    /\ active' = active + 1
    /\ resp' \in Responses
    /\ ctxAtStart' = ctxDone
    /\ fetchErr' = "none"
    /\ metrics' = NilMetrics
    /\ latencyMetrics' = << >>
    /\ idx' = 1
    /\ attempts' = << >>
    /\ cycleErr' = "pending"
    /\ prevCycleErr' = cycleErr
    /\ pc' = "fetching"
    /\ batchCycle' = 0
    /\ UNCHANGED << cfgVars, mainVars, connected, envVars, tickVars, disconnects,
                    runResult >>

\* Variant: a failed request is issued a second time before giving up
FetchReturn_RetryOnce ==
    /\ pc = "fetching"
    /\ \E res \in GetISPMetrics(resp, ctxAtStart, ctxDone) :
         /\ fetchErr' = res.err
         /\ metrics' = res.metrics
         /\ IF res.err # "none"
              THEN IF requests = cycles
                     THEN /\ requests' = requests + 1
                          /\ resp' \in Responses
                          /\ UNCHANGED << cycleErr, active, pc >>
                     ELSE /\ cycleErr' = "error"
                          /\ active' = active - 1
                          /\ pc' = "select"
                          /\ resp' = NoResponse
                          /\ UNCHANGED requests
              ELSE /\ pc' = "extract"
                   /\ resp' = NoResponse
                   /\ UNCHANGED << cycleErr, active, requests >>
    /\ UNCHANGED << cfgVars, mainVars, batchCycle, connected, envVars, tickVars, cycles,
                    ctxAtStart, latencyMetrics, idx, attempts, prevCycleErr,
                    disconnects, runResult >>

\* Variant: Run treats the error of a cycle as fatal and shuts down
FetchReturn_Escalate ==
    /\ pc = "fetching"
    /\ \E res \in GetISPMetrics(resp, ctxAtStart, ctxDone) :
         /\ fetchErr' = res.err
         /\ metrics' = res.metrics
         /\ IF res.err # "none"
              THEN /\ cycleErr' = "error"
                   /\ active' = active - 1
                   /\ pc' = "shutdown"
              ELSE /\ pc' = "extract"
                   /\ UNCHANGED << cycleErr, active >>
    /\ resp' = NoResponse
    /\ UNCHANGED << cfgVars, mainVars, batchCycle, connected, envVars, tickVars, cycles, requests,
                    ctxAtStart, latencyMetrics, idx, attempts, prevCycleErr,
                    disconnects, runResult >>

\* GetISPMetrics returns; on error fetchAndPublishMetrics returns the
\* wrapped error and Run logs it and loops
FetchReturn ==
    /\ pc = "fetching"
    /\ \E res \in GetISPMetrics(resp, ctxAtStart, ctxDone) :
         /\ fetchErr' = res.err
         /\ metrics' = res.metrics
         /\ IF res.err # "none"
              THEN /\ cycleErr' = "error"
                   /\ active' = active - 1
                   /\ pc' = "select"
              ELSE /\ pc' = "extract"
                   /\ UNCHANGED << cycleErr, active >>
    /\ resp' = NoResponse
    /\ UNCHANGED << cfgVars, mainVars, batchCycle, connected, envVars, tickVars, cycles, requests,
                    ctxAtStart, latencyMetrics, idx, attempts, prevCycleErr,
                    disconnects, runResult >>

\* Variant: the extraction cuts every series of the envelope down to the
\* period it used
Extract_TrimsPeriods ==
    /\ pc = "extract"
    /\ ~legacy
    /\ latencyMetrics' = extractLatestLatencyMetrics(metrics, Now)
    /\ metrics' =
         [Data |-> [i \in 1..Len(metrics.Data) |->
                      [metrics.Data[i] EXCEPT
                         !.Periods = SubSeq(@, 1, IF Len(@) = 0 THEN 0 ELSE 1)]]]
    /\ idx' = 1
    /\ pc' = "publish"
    /\ batchCycle' = cycles
    /\ UNCHANGED << cfgVars, mainVars, connected, envVars, tickVars, cycles, requests, active,
                    resp, ctxAtStart, fetchErr, attempts, cycleErr,
                    prevCycleErr, disconnects, runResult >>

\* latencyMetrics := a.extractLatestLatencyMetrics(metrics)
Extract ==
    /\ pc = "extract"
    /\ ~legacy
    /\ latencyMetrics' = extractLatestLatencyMetrics(metrics, Now)
    /\ idx' = 1
    /\ pc' = "publish"
    /\ batchCycle' = cycles
    /\ UNCHANGED << cfgVars, mainVars, connected, envVars, tickVars, cycles, requests, active,
                    resp, ctxAtStart, fetchErr, metrics, attempts, cycleErr,
                    prevCycleErr, disconnects, runResult >>

\* Variant: publishedAt is set when the record is published
PublishStart_StampAtPublish ==
    /\ pc = "publish"
    /\ idx <= Len(latencyMetrics)
    /\ metrics' = NilMetrics
    /\ \E brokerOk \in BOOLEAN :
         attempts' = Append(attempts,
            [topic    |-> LatencyTopic(MqttTopic, latencyMetrics[idx].SiteId),
             qos      |-> 0,
             retained |-> FALSE,
             payload  |-> [MarshalLatency(latencyMetrics[idx])
                            EXCEPT !.publishedAt = Now],
             brokerOk |-> brokerOk,
             result   |-> "inflight"])
    /\ pc' = "publishing"
    /\ UNCHANGED << cfgVars, mainVars, batchCycle, connected, envVars, tickVars, cycles, requests, active,
                    resp, ctxAtStart, fetchErr, latencyMetrics, idx,
                    cycleErr, prevCycleErr, disconnects, runResult >>

\* PublishLatency up to client.Publish(topic, 0, false, payload).  metrics
\* is not read after the extraction: it is dropped when the loop is entered.
PublishStart ==
    /\ pc = "publish"
    /\ idx <= Len(latencyMetrics)
    /\ metrics' = NilMetrics
    /\ \E brokerOk \in BOOLEAN :
         attempts' = Append(attempts,
            [topic    |-> LatencyTopic(MqttTopic, latencyMetrics[idx].SiteId),
             qos      |-> 0,
             retained |-> FALSE,
             payload  |-> MarshalLatency(latencyMetrics[idx]),
             brokerOk |-> brokerOk,
             result   |-> "inflight"])
    /\ pc' = "publishing"
    /\ UNCHANGED << cfgVars, mainVars, batchCycle, connected, envVars, tickVars, cycles, requests, active,
                    resp, ctxAtStart, fetchErr, latencyMetrics, idx,
                    cycleErr, prevCycleErr, disconnects, runResult >>

\* Variant: the range loop checks ctx and gives up the rest of the batch
PublishReturn_AbortOnCancel ==
    /\ pc = "publishing"
    /\ LET n == Len(attempts)
           r == PublishResult(attempts[n].brokerOk, ctxDone)
       IN /\ attempts' = [attempts EXCEPT ![n].result = r]
          /\ idx' = IF ctxDone THEN Len(latencyMetrics) + 1
                               ELSE NextIndex(r, idx, Len(latencyMetrics))
    /\ pc' = "publish"
    /\ UNCHANGED << cfgVars, mainVars, batchCycle, connected, envVars, tickVars, cycles, requests, active,
                    resp, ctxAtStart, fetchErr, metrics, latencyMetrics,
                    cycleErr, prevCycleErr, disconnects, runResult >>

\* token.Wait() returns; an error is logged and the loop continues
PublishReturn ==
    /\ pc = "publishing"
    /\ LET n == Len(attempts)
           r == PublishResult(attempts[n].brokerOk, ctxDone)
       IN /\ attempts' = [attempts EXCEPT ![n].result = r]
          /\ idx' = NextIndex(r, idx, Len(latencyMetrics))
    /\ pc' = "publish"
    /\ UNCHANGED << cfgVars, mainVars, batchCycle, connected, envVars, tickVars, cycles, requests, active,
                    resp, ctxAtStart, fetchErr, metrics, latencyMetrics,
                    cycleErr, prevCycleErr, disconnects, runResult >>

\* Variant: the cycle returns an error when a publish of the batch failed
CycleEnd_FailOnPublishError ==
    /\ pc = "publish"
    /\ idx > Len(latencyMetrics)
    /\ cycleErr' = IF \E k \in 1..Len(attempts) : attempts[k].result = "err"
                     THEN "error"
                     ELSE "nil"
    /\ active' = active - 1
    /\ metrics' = NilMetrics
    /\ latencyMetrics' = << >>
    /\ idx' = 1
    /\ attempts' = << >>
    /\ pc' = "select"
    /\ batchCycle' = 0
    /\ UNCHANGED << cfgVars, mainVars, connected, envVars, tickVars, cycles, requests, resp,
                    ctxAtStart, fetchErr, prevCycleErr, disconnects,
                    runResult >>

\* The range loop is exhausted: log sites_published and return nil; the
\* locals of the call (metrics, latencyMetrics) are gone
CycleEnd ==
    /\ pc = "publish"
    /\ idx > Len(latencyMetrics)
    /\ cycleErr' = "nil"
    /\ active' = active - 1
    /\ metrics' = NilMetrics
    /\ latencyMetrics' = << >>
    /\ idx' = 1
    /\ attempts' = << >>
    /\ pc' = "select"
    /\ batchCycle' = 0
    /\ UNCHANGED << cfgVars, mainVars, connected, envVars, tickVars, cycles, requests, resp,
                    ctxAtStart, fetchErr, prevCycleErr, disconnects,
                    runResult >>

\* Variant: the envelope is published retained, with QoS 1
LegacyPublishStart_Retained ==
    /\ pc = "extract"
    /\ legacy
    /\ \E brokerOk \in BOOLEAN :
         attempts' = << [topic    |-> MqttTopic,
                         qos      |-> 1,
                         retained |-> TRUE,
                         payload  |-> MarshalMetrics(metrics),
                         brokerOk |-> brokerOk,
                         result   |-> "inflight"] >>
    /\ pc' = "legacyPublishing"
    /\ UNCHANGED << cfgVars, mainVars, connected, envVars, tickVars, cycles, requests, active,
                    resp, ctxAtStart, fetchErr, metrics, latencyMetrics,
                    batchCycle, idx, cycleErr, prevCycleErr, disconnects,
                    runResult >>

\* The whole-envelope generation of fetchAndPublishMetrics, after the
\* fetch: MQTTPublisher.Publish up to client.Publish(p.topic, 0, false,
\* payload)
LegacyPublishStart ==
    /\ pc = "extract"
    /\ legacy
    /\ \E brokerOk \in BOOLEAN :
         attempts' = << [topic    |-> MqttTopic,
                         qos      |-> 0,
                         retained |-> FALSE,
                         payload  |-> MarshalMetrics(metrics),
                         brokerOk |-> brokerOk,
                         result   |-> "inflight"] >>
    /\ pc' = "legacyPublishing"
    /\ UNCHANGED << cfgVars, mainVars, connected, envVars, tickVars, cycles, requests, active,
                    resp, ctxAtStart, fetchErr, metrics, latencyMetrics,
                    batchCycle, idx, cycleErr, prevCycleErr, disconnects,
                    runResult >>

\* Variant: the error of the legacy Publish is logged and the cycle succeeds
LegacyPublishReturn_SwallowError ==
    /\ pc = "legacyPublishing"
    /\ cycleErr' = "nil"
    /\ active' = active - 1
    /\ metrics' = NilMetrics
    /\ attempts' = << >>
    /\ pc' = "select"
    /\ UNCHANGED << cfgVars, mainVars, connected, envVars, tickVars, cycles, requests, resp,
                    ctxAtStart, fetchErr, latencyMetrics, batchCycle, idx,
                    prevCycleErr, disconnects, runResult >>

\* token.Wait() of the legacy Publish: its error is the error of the cycle
LegacyPublishReturn ==
    /\ pc = "legacyPublishing"
    /\ cycleErr' = IF attempts[1].brokerOk THEN "nil" ELSE "error"
    /\ active' = active - 1
    /\ metrics' = NilMetrics
    /\ attempts' = << >>
    /\ pc' = "select"
    /\ UNCHANGED << cfgVars, mainVars, connected, envVars, tickVars, cycles, requests, resp,
                    ctxAtStart, fetchErr, latencyMetrics, batchCycle, idx,
                    prevCycleErr, disconnects, runResult >>

\* The sites_published field of the "Successfully published latency
\* metrics" log that ends a cycle: len(latencyMetrics)
SitesPublished == Len(latencyMetrics)

\* Variant: the Done case lacks its return and the loop goes on
Disconnect_NoReturn ==
    /\ pc = "shutdown"
    /\ disconnects' = disconnects + 1
    /\ connected' = FALSE
    /\ pc' = "select"
    /\ UNCHANGED << cfgVars, mainVars, envVars, tickVars, cycleVars, runResult >>

\* case <-ctx.Done(): a.mqttPublisher.Disconnect()
Disconnect ==
    /\ pc = "shutdown"
    /\ disconnects' = disconnects + 1
    /\ connected' = FALSE
    /\ pc' = "returning"
    /\ UNCHANGED << cfgVars, mainVars, envVars, tickVars, cycleVars, runResult >>

\* Variant: the Done case returns ctx.Err() instead of nil
RunReturn_CtxErr ==
    /\ pc = "returning"
    /\ ticker' = "stopped"
    /\ runResult' = "error"
    /\ pc' = "returned"
    /\ UNCHANGED << cfgVars, mainVars, connected, envVars, tickPending, ticksFired,
                    cycleVars, disconnects >>

\* return nil, which runs the deferred ticker.Stop()
RunReturn ==
    /\ pc = "returning"
    /\ ticker' = "stopped"
    /\ runResult' = "nil"
    /\ pc' = "returned"
    /\ UNCHANGED << cfgVars, mainVars, connected, envVars, tickPending, ticksFired,
                    cycleVars, disconnects >>

\* main after app.Run: Fatal (exit status 1) on an error, else the
\* "Application shutdown complete" log and the return from main (status 0)
MainExit ==
    /\ pc = "returned"
    /\ exitCode' = IF runResult = "nil" THEN 0 ELSE 1
    /\ pc' = "exited"
    /\ UNCHANGED << cfgVars, connectErr, connected, envVars, tickVars,
                    cycleVars, disconnects, runResult >>

Next ==
    \/ NewApp
    \/ RunStart
    \/ Signal
    \/ SignalHandler
    \/ Tick
    \/ SelectDone
    \/ SelectTick
    \/ SelectPark
    \/ FetchStart
    \/ FetchReturn
    \/ Extract
    \/ PublishStart
    \/ PublishReturn
    \/ CycleEnd
    \/ Disconnect
    \/ RunReturn
    \/ MainExit

Spec == Init /\ [][Next]_vars

\* The runner goroutine
Runner ==
    \/ NewApp
    \/ RunStart
    \/ SelectDone
    \/ SelectTick
    \/ SelectPark
    \/ FetchStart
    \/ FetchReturn
    \/ Extract
    \/ PublishStart
    \/ PublishReturn
    \/ CycleEnd
    \/ Disconnect
    \/ RunReturn
    \/ MainExit

\* The Go scheduler runs a runnable goroutine, a running ticker fires, the
\* HTTP client has a 30 s timeout and the MQTT token completes, so every
\* call returns.
LiveSpec == Spec /\ WF_vars(Runner) /\ WF_vars(Tick) /\ WF_vars(SignalHandler)

\* One fetchAndPublishMetrics call from the point where GetISPMetrics has
\* returned one of the given envelopes, in the given generation
CycleStart(mode, envelopes) ==
    /\ MqttTopic \in BaseTopics
    /\ legacy = mode
    /\ connectErr = "nil"
    /\ exitCode = -1
    /\ batchCycle = 0
    /\ pc = "extract"
    /\ connected = TRUE
    /\ sigChan = 0
    /\ handlerPc = "waiting"
    /\ ctxDone = FALSE
    /\ cancelPc = "none"
    /\ cancelIdx = 0
    /\ ticker = "running"
    /\ tickPending = FALSE
    /\ ticksFired \in {0, MaxTicks}
    /\ cycles = 1
    /\ requests = 1
    /\ active = 1
    /\ resp = NoResponse
    /\ ctxAtStart = FALSE
    /\ fetchErr = "none"
    /\ metrics \in envelopes
    /\ latencyMetrics = << >>
    /\ idx = 1
    /\ attempts = << >>
    /\ cycleErr = "pending"
    /\ prevCycleErr = "none"
    /\ disconnects = 0
    /\ runResult = "none"

\* The per-site cycle for every envelope of the type
CycleInit == CycleStart(FALSE, ISPMetrics)

CycleNext ==
    \/ Extract
    \/ PublishStart
    \/ PublishReturn
    \/ CycleEnd

CycleSpec == CycleInit /\ [][CycleNext]_vars

\* The whole-envelope generation: the same main and Run around the
\* fetchAndPublishMetrics that calls MQTTPublisher.Publish
LegacyNext ==
    \/ NewApp
    \/ RunStart
    \/ Signal
    \/ SignalHandler
    \/ Tick
    \/ SelectDone
    \/ SelectTick
    \/ SelectPark
    \/ FetchStart
    \/ FetchReturn
    \/ LegacyPublishStart
    \/ LegacyPublishReturn
    \/ Disconnect
    \/ RunReturn
    \/ MainExit

LegacySpec == LegacyInit /\ [][LegacyNext]_vars

\* Both generations of the publish part of a cycle
PublishInit == \E mode \in BOOLEAN : CycleStart(mode, FetchBodies)

PublishNext ==
    \/ Extract
    \/ PublishStart
    \/ PublishReturn
    \/ CycleEnd
    \/ LegacyPublishStart
    \/ LegacyPublishReturn

PublishSpec == PublishInit /\ [][PublishNext]_vars

TypeOK ==
    /\ MqttTopic \in BaseTopics
    /\ pc \in {"main", "fatal", "run", "cycle", "fetching", "extract",
               "publish", "publishing", "select", "parked", "shutdown",
               "returning", "returned", "exited", "legacyPublishing"}
    /\ legacy \in BOOLEAN
    /\ connectErr \in {"none", "nil", "error"}
    /\ exitCode \in {-1, 0, 1}
    /\ batchCycle \in {0, cycles}
    /\ connected \in BOOLEAN
    /\ sigChan \in 0..1
    /\ handlerPc \in {"idle", "waiting", "done"}
    /\ ctxDone \in BOOLEAN
    /\ ticker \in {"none", "running", "stopped"}
    /\ tickPending \in BOOLEAN
    /\ ticksFired \in 0..MaxTicks
    /\ cycles \in 0..(MaxTicks + 1)
    /\ requests \in 0..(MaxTicks + 1)
    /\ active \in 0..1
    /\ idx \in 1..(MaxSeries + 1)
    /\ Len(latencyMetrics) <= MaxSeries
    /\ ~legacy => Len(attempts) <= Len(latencyMetrics)
    /\ cycleErr \in {"none", "pending", "nil", "error"}
    /\ disconnects \in 0..1
    /\ runResult \in {"none", "nil"}

(* ------------------------------ claims --------------------------------- *)

Returned(a) == a.result # "inflight"
InLoop == pc \in {"publish", "publishing"}
LoopDone == pc = "publish" /\ idx > Len(latencyMetrics)

\* C1: within one cycle every extracted record gets its publish attempt, in
\* extraction order, whatever the outcomes of the publishes before it: the
\* attempts made so far are the records 1..k of the batch, and when the loop
\* is left the attempts are exactly the batch, all returned.
C1_EveryRecordAttempted ==
    /\ Len(attempts) <= Len(latencyMetrics)
    /\ \A k \in 1..Len(attempts) :
          /\ attempts[k].payload.siteId = latencyMetrics[k].SiteId
          /\ attempts[k].payload.hostId = latencyMetrics[k].HostId
          /\ attempts[k].payload.timestamp = latencyMetrics[k].Timestamp
          /\ k < Len(attempts) => Returned(attempts[k])
    /\ LoopDone =>
          /\ Len(attempts) = Len(latencyMetrics)
          /\ \A k \in 1..Len(attempts) : Returned(attempts[k])

\* A batch of two sites whose first publish failed and whose second was made
C1_Witness ==
    /\ LoopDone
    /\ Len(attempts) = 2
    /\ attempts[1].result = "err"
    /\ attempts[2].result = "ok"
    /\ attempts[1].payload.siteId # attempts[2].payload.siteId

FetchFailureKinds == {"status", "network", "decode"}

\* C2: a cycle whose fetch fails (non-200, network or decode failure) makes
\* no publish attempt, returns an error, and the runner goes back to the
\* select of its loop: Run has not returned, the ticker runs and the broker
\* is still connected.
C2_FetchFailureAbortsCycle ==
    /\ [](cycleErr = "error" =>
            /\ attempts = << >>
            /\ latencyMetrics = << >>
            /\ ~InLoop)
    /\ [][(pc = "fetching" /\ pc' # "fetching" /\ resp.kind \in FetchFailureKinds)
            => /\ cycleErr' = "error"
               /\ attempts' = << >>
               /\ pc' = "select"
               /\ runResult' = "none"
               /\ ticker' = "running"
               /\ disconnects' = 0
               /\ connected']_vars

\* A cycle failed with a non-200 answer and the runner is blocked in select
C2_Witness ==
    /\ cycleErr = "error"
    /\ fetchErr = "status"
    /\ pc = "parked"
    /\ connected
    /\ attempts = << >>

\* The batch has just been extracted from the envelope held in metrics
Extracted == pc = "publish" /\ idx = 1 /\ attempts = << >> /\ metrics # NilMetrics

HasPeriods(i) == Len(metrics.Data[i].Periods) > 0

\* Position in the batch of the record of series i
Rank(i) == Cardinality({ j \in 1..i : HasPeriods(j) })

\* C3: extractLatest yields exactly one record per series that has a
\* period and none for a series without periods, in the order of the series
\* in the envelope: the k-th series with periods gives the k-th record, so
\* N series with periods give N records and an empty series changes nothing
\* for the others.
C3_OneRecordPerNonEmptySeries ==
    Extracted =>
      /\ Len(latencyMetrics) = Cardinality({ i \in 1..Len(metrics.Data) : HasPeriods(i) })
      /\ \A i \in 1..Len(metrics.Data) :
            HasPeriods(i) =>
              /\ Rank(i) \in 1..Len(latencyMetrics)
              /\ latencyMetrics[Rank(i)].SiteId = metrics.Data[i].SiteId
              /\ latencyMetrics[Rank(i)].HostId = metrics.Data[i].HostId
              /\ latencyMetrics[Rank(i)].Timestamp = metrics.Data[i].Periods[1].MetricTime
      /\ \A i \in 1..Len(metrics.Data) :
            ~HasPeriods(i) =>
              LET without == [Data |-> SubSeq(metrics.Data, 1, i - 1)
                                         \o SubSeq(metrics.Data, i + 1, Len(metrics.Data))]
              IN \A t \in 0..MaxTicks :
                   (\A k \in 1..Len(latencyMetrics) : latencyMetrics[k].PublishedAt = t)
                     => extractLatestLatencyMetrics(without, t) = latencyMetrics

\* An empty series before a series with periods: one record, of the second
C3_Witness ==
    /\ Extracted
    /\ Len(metrics.Data) = 2
    /\ ~HasPeriods(1)
    /\ HasPeriods(2)
    /\ Len(latencyMetrics) = 1
    /\ latencyMetrics[1].SiteId = metrics.Data[2].SiteId

\* C4: the record of a series takes avgLatency, maxLatency, ispName, ispAsn
\* and timestamp from the first period of the series (index 0 in the code)
\* and siteId/hostId from the series; replacing the periods after the first
\* by any others leaves the batch unchanged.
C4_FirstPeriodVerbatim ==
    Extracted =>
      \A i \in 1..Len(metrics.Data) :
        HasPeriods(i) =>
          LET rec == latencyMetrics[Rank(i)]
              first == metrics.Data[i].Periods[1]
          IN /\ rec.AvgLatency = first.Data.WAN.AvgLatency
             /\ rec.MaxLatency = first.Data.WAN.MaxLatency
             /\ rec.ISPName = first.Data.WAN.ISPName
             /\ rec.ISPAsn = first.Data.WAN.ISPAsn
             /\ rec.Timestamp = first.MetricTime
             /\ rec.SiteId = metrics.Data[i].SiteId
             /\ rec.HostId = metrics.Data[i].HostId
             /\ \A rest \in SeqsUpTo(Period, MaxPeriods - 1) :
                  LET other == [metrics EXCEPT !.Data[i].Periods = << first >> \o rest]
                  IN extractLatestLatencyMetrics(other, rec.PublishedAt) = latencyMetrics

\* A series whose second period differs from its first in every value
C4_Witness ==
    /\ Extracted
    /\ Len(metrics.Data) >= 1
    /\ metrics.Data[1].Periods = << PeriodA, PeriodB >>
    /\ Len(latencyMetrics) >= 1
    /\ latencyMetrics[1].AvgLatency = 10
    /\ latencyMetrics[1].Timestamp = "t1"

\* The topic is baseTopic, "/", siteId, "/latency"
ExactTopic(a) == a.topic = MqttTopic \o "/" \o a.payload.siteId \o "/latency"

\* C5 as stated: the topic of every per-site publish is exactly
\* baseTopic/siteId/latency, and any other (baseTopic, siteId) pair would
\* have given another topic.
C5_TopicDistinctPerPair ==
    \A k \in 1..Len(attempts) :
      /\ ExactTopic(attempts[k])
      /\ \A b \in BaseTopics, sid \in SiteIds :
            << b, sid >> # << MqttTopic, attempts[k].payload.siteId >>
              => b \o "/" \o sid \o "/latency" # attempts[k].topic

\* C5 amended: the topic of every per-site publish is exactly
\* baseTopic/siteId/latency, of the record published; with the same
\* baseTopic another siteId gives another topic, and with the same siteId
\* another baseTopic gives another topic.
C5_TopicExact ==
    \A k \in 1..Len(attempts) :
      /\ ExactTopic(attempts[k])
      /\ attempts[k].payload.siteId = latencyMetrics[k].SiteId
      /\ \A sid \in SiteIds :
            sid # attempts[k].payload.siteId
              => MqttTopic \o "/" \o sid \o "/latency" # attempts[k].topic
      /\ \A b \in BaseTopics :
            b # MqttTopic
              => b \o "/" \o attempts[k].payload.siteId \o "/latency" # attempts[k].topic

\* A publish to a/b/c/latency with baseTopic a and siteId b/c, the topic
\* that baseTopic a/b and siteId c give as well
C5_Witness ==
    /\ Len(attempts) >= 1
    /\ MqttTopic = "a"
    /\ attempts[1].payload.siteId = "b/c"
    /\ attempts[1].topic = "a/b/c/latency"

AtWait == pc \in {"select", "parked"}
ShuttingDown == pc \in {"shutdown", "returning", "returned", "exited"}

\* C6: when cancel() is called while the runner is blocked in the select
\* (between two ticks), no further cycle is started, Disconnect is called
\* exactly once and Run returns nil.
C6_ShutdownBetweenTicks ==
    /\ [](cancelPc = "parked" =>
            /\ ShuttingDown
            /\ active = 0
            /\ disconnects = (IF pc = "shutdown" THEN 0 ELSE 1)
            /\ pc \in {"returned", "exited"} => runResult = "nil")
    /\ [][cancelPc' = "parked" =>
            /\ cycles' = cycles
            /\ attempts' = attempts
            /\ resp' = resp]_vars
    /\ (cancelPc = "parked") ~>
          (pc \in {"returned", "exited"} /\ disconnects = 1 /\ runResult = "nil")

\* Shutdown came while waiting for the second tick; Run has returned
C6_Witness ==
    /\ cancelPc = "parked"
    /\ pc = "returned"
    /\ disconnects = 1
    /\ cycles = 2
    /\ ticksFired = 1

\* The outcome of the fetch in flight is the one the answer gives
NaturalFetch ==
    IF resp.kind = "ok"
      THEN fetchErr' = "none" /\ metrics' = resp.body
      ELSE fetchErr' = resp.kind /\ cycleErr' = "error"

\* The outcome of the publish in flight is the one the broker client gives
NaturalPublish ==
    /\ Len(attempts') = Len(attempts)
    /\ attempts'[Len(attempts)].result =
          (IF attempts[Len(attempts)].brokerOk THEN "ok" ELSE "err")

\* C7 as stated: a fetch or a publish in flight when shutdown is requested
\* completes with the outcome it would have had without the request, and
\* the request is observed only at the wait point of the loop.
C7_NothingInFlightCancelled ==
    [][/\ (pc = "fetching" /\ pc' # "fetching" /\ ~ctxAtStart) => NaturalFetch
       /\ (pc = "publishing" /\ pc' # "publishing") => NaturalPublish
       /\ (pc' = "shutdown" /\ pc # "shutdown") => AtWait]_vars

\* C7 amended: a publish in flight when shutdown is requested completes
\* with the outcome it would have had; a fetch in flight completes with the
\* outcome it would have had or, the request carrying the cancelled
\* context, fails with a cancellation error, and the cycle then makes no
\* publish; the loop observes the request only at its wait point.
C7_OnlyFetchCancelled ==
    [][/\ (pc = "fetching" /\ pc' # "fetching") =>
             \/ NaturalFetch
             \/ /\ ctxDone
                /\ fetchErr' = "canceled"
                /\ cycleErr' = "error"
                /\ attempts' = << >>
                /\ pc' = "select"
       /\ (pc = "publishing" /\ pc' # "publishing") => NaturalPublish
       /\ (pc' = "shutdown" /\ pc # "shutdown") => AtWait]_vars

\* The request came during a fetch that was answered 200, and the fetch
\* failed with the cancellation error
C7_Witness ==
    /\ cancelPc = "fetching"
    /\ ~ctxAtStart
    /\ fetchErr = "canceled"
    /\ cycleErr = "error"
    /\ cycles = 1
    /\ pc = "select"

\* C8: when shutdown is requested after the publish loop of a cycle has
\* begun, the loop is left only when every record of the batch has had its
\* attempt and the last one has returned, and Disconnect is called only
\* after that, from the select.
C8_BatchCompletesBeforeDisconnect ==
    /\ [](disconnects > 0 => (ShuttingDown /\ active = 0))
    /\ [][(ctxDone /\ InLoop /\ ~InLoop') =>
            /\ Len(attempts) = Len(latencyMetrics)
            /\ \A k \in 1..Len(attempts) :
                  /\ Returned(attempts[k])
                  /\ attempts[k].payload.siteId = latencyMetrics[k].SiteId
            /\ disconnects' = 0
            /\ pc' = "select"]_vars
    /\ [][disconnects' # disconnects => (pc = "shutdown" /\ active = 0)]_vars

\* The request came while the first publish of a batch of two was in
\* flight; both records have had their attempt
C8_Witness ==
    /\ cancelPc = "publishing"
    /\ cancelIdx = 1
    /\ cycles = 1
    /\ LoopDone
    /\ Len(attempts) = 2
    /\ Returned(attempts[2])
    /\ disconnects = 0

\* C9: at most one cycle is in progress: a fetch is started only when no
\* call of fetchAndPublishMetrics is in progress, no request is in flight
\* and every publish attempt made has returned.
C9_CyclesNeverOverlap ==
    /\ [](active <= 1)
    /\ [](active = 0 => (resp = NoResponse /\ attempts = << >>))
    /\ [][cycles' # cycles =>
            /\ active = 0
            /\ resp = NoResponse
            /\ Len(attempts) = Len(latencyMetrics)
            /\ \A k \in 1..Len(attempts) : Returned(attempts[k])]_vars

\* The third cycle fetches after a cycle that published, shutdown requested
C9_Witness ==
    /\ cycles = 3
    /\ pc = "fetching"
    /\ active = 1
    /\ prevCycleErr = "nil"
    /\ ctxDone

\* The ticker has a tick to give within the bound of the model
TickLeft == tickPending \/ ticksFired < MaxTicks

\* C10: after a cycle failed with a fetch error and while no shutdown is
\* requested, the ticker is running and Run is in its loop; the next tick
\* fires and starts a new cycle, which runs to its end.
C10_NextTickAfterFailure ==
    /\ []((cycleErr = "error" /\ ~ctxDone) =>
            (ticker = "running" /\ pc \in {"select", "parked", "cycle"}))
    /\ (cycleErr = "error" /\ TickLeft)
          ~> (ctxDone \/ (pc = "fetching" /\ prevCycleErr = "error"))
    /\ (pc = "fetching" /\ prevCycleErr = "error")
          ~> (prevCycleErr = "error" /\ cycleErr \in {"nil", "error"})

\* The cycle after a failed one has run to its end and published
C10_Witness ==
    /\ cycles = 2
    /\ prevCycleErr = "error"
    /\ LoopDone
    /\ Len(attempts) >= 1
    /\ ~ctxDone

\* C11: when the connection to the broker fails in NewApp, the process
\* exits with status 1 right there: Run is not entered (no ticker, no
\* fetch, no publish, no Disconnect), nothing is connected and no step
\* follows, so the connection is not tried a second time.
C11_ConnectFailureIsFatal ==
    /\ [](connectErr = "error" =>
            /\ pc = "fatal"
            /\ exitCode = 1
            /\ ~connected
            /\ ticker = "none"
            /\ cycles = 0
            /\ resp = NoResponse
            /\ attempts = << >>
            /\ disconnects = 0
            /\ runResult = "none")
    /\ [][connectErr # "error"]_vars
    /\ [][connectErr' # connectErr => connectErr = "none"]_vars

\* The broker refused the connection and the process has exited
C11_Witness ==
    /\ connectErr = "error"
    /\ pc = "fatal"
    /\ exitCode = 1

\* C12: no failed fetch, decode or publish ends Run.  Run leaves its loop
\* only after cancel() (the shutdown request), whatever the cycles before
\* it did, and the value it returns is nil, so main exits with status 0.
C12_OnlyShutdownEndsRun ==
    /\ [](ShuttingDown => ctxDone)
    /\ [](runResult # "none" => (runResult = "nil" /\ ctxDone))
    /\ [](pc = "exited" => exitCode = 0)
    /\ [][cycleErr' = "error" /\ cycleErr # "error" =>
            /\ pc' = "select"
            /\ runResult' = "none"]_vars
    /\ [][Len(attempts) >= 1 /\ attempts' = << >> =>
            /\ pc' = "select"
            /\ runResult' = "none"]_vars

\* Two failed cycles in a row, and Run returned nil after the shutdown
C12_Witness ==
    /\ prevCycleErr = "error"
    /\ cycleErr = "error"
    /\ ctxDone
    /\ pc = "returned"
    /\ runResult = "nil"

\* C13: after cancel() (the shutdown request), with every call returning,
\* the runner reaches Disconnect, Run returns nil and the process exits
\* with status 0.  After the request the runner never blocks in the select,
\* and a further cycle starts only when the select takes a tick that was
\* already buffered.
C13_ShutdownTerminates ==
    /\ ctxDone ~> (/\ pc = "exited"
                   /\ exitCode = 0
                   /\ runResult = "nil"
                   /\ disconnects = 1
                   /\ ~connected)
    /\ [](ctxDone => pc # "parked")
    /\ [][ctxDone /\ pc' = "cycle" /\ pc # "cycle" =>
            \/ pc = "run"
            \/ pc = "select" /\ tickPending]_vars

\* The request came during a publish of the second cycle; the process
\* has exited with status 0
C13_Witness ==
    /\ cancelPc = "publishing"
    /\ cycles = 2
    /\ pc = "exited"
    /\ exitCode = 0
    /\ disconnects = 1

\* C14: attempt k of a cycle is for record k of the batch of that cycle and
\* no record gets a second attempt, whatever the first one gave; envelope,
\* batch and attempts exist only within the cycle that fetched the
\* envelope: the batch is the extraction of the envelope of the answer of
\* this cycle, and a new cycle starts with none of them.
C14_OneAttemptPerRecordPerCycle ==
    /\ [](idx = Len(attempts) + (IF pc = "publishing" THEN 0 ELSE 1))
    /\ [](latencyMetrics # << >> \/ attempts # << >> =>
            /\ batchCycle = cycles
            /\ active = 1)
    /\ [][Len(attempts') > Len(attempts) =>
            /\ Len(attempts') = Len(attempts) + 1
            /\ idx = Len(attempts')
            /\ attempts'[idx].payload = MarshalLatency(latencyMetrics[idx])
            /\ latencyMetrics' = latencyMetrics
            /\ batchCycle = cycles]_vars
    /\ [][latencyMetrics' # latencyMetrics /\ latencyMetrics' # << >> =>
            /\ pc = "extract"
            /\ latencyMetrics = << >>
            /\ latencyMetrics' = extractLatestLatencyMetrics(metrics, Now)
            /\ batchCycle' = cycles]_vars
    /\ [][metrics' # metrics /\ metrics' # NilMetrics =>
            /\ pc = "fetching"
            /\ metrics' = resp.body]_vars
    /\ [][cycles' # cycles =>
            /\ resp # resp'
            /\ metrics' = NilMetrics
            /\ latencyMetrics' = << >>
            /\ attempts' = << >>
            /\ batchCycle' = 0]_vars

\* The second cycle has made its two attempts, the first of which failed,
\* after a first cycle that had ended
C14_Witness ==
    /\ cycles = 2
    /\ batchCycle = 2
    /\ prevCycleErr = "nil"
    /\ LoopDone
    /\ Len(attempts) = 2
    /\ attempts[1].result = "err"

NoPeriods(m) == \A i \in 1..Len(m.Data) : Len(m.Data[i].Periods) = 0

\* C15: when the fetched envelope has no series with a period (an empty
\* envelope included), the batch is empty, the loop is over at once with no
\* publish attempt, and the cycle ends with a nil error after logging
\* sites_published = 0.
C15_NoPeriodsNoPublish ==
    /\ [](pc = "publish" /\ metrics # NilMetrics /\ NoPeriods(metrics) =>
            /\ fetchErr = "none"
            /\ latencyMetrics = << >>
            /\ attempts = << >>
            /\ LoopDone
            /\ SitesPublished = 0)
    /\ [][pc = "publish" /\ metrics # NilMetrics /\ NoPeriods(metrics)
            /\ pc' # pc =>
            /\ pc' = "select"
            /\ cycleErr' = "nil"
            /\ attempts' = << >>
            /\ active' = 0]_vars

\* An envelope of two series, neither with a period, has been extracted
C15_Witness ==
    /\ pc = "publish"
    /\ metrics # NilMetrics
    /\ Len(metrics.Data) = 2
    /\ NoPeriods(metrics)
    /\ latencyMetrics = << >>

\* C16: two series of one envelope with the same siteId, both with
\* periods, give two records, each from its own series and in the order of
\* the series; the two records get one publish attempt each, in that
\* order and on the same topic, so the last attempt on a topic is the one
\* of the last series of that site.
C16_DuplicateSitesKept ==
    /\ Extracted =>
          \A i, j \in 1..Len(metrics.Data) :
            (/\ i < j
             /\ HasPeriods(i)
             /\ HasPeriods(j)
             /\ metrics.Data[i].SiteId = metrics.Data[j].SiteId) =>
               /\ Rank(i) < Rank(j)
               /\ Rank(j) <= Len(latencyMetrics)
               /\ latencyMetrics[Rank(i)] =
                     LatencyMetric(metrics.Data[i], metrics.Data[i].Periods[1],
                                   latencyMetrics[Rank(i)].PublishedAt)
               /\ latencyMetrics[Rank(j)] =
                     LatencyMetric(metrics.Data[j], metrics.Data[j].Periods[1],
                                   latencyMetrics[Rank(j)].PublishedAt)
    /\ \A j, k \in 1..Len(latencyMetrics) :
          (j < k /\ latencyMetrics[j].SiteId = latencyMetrics[k].SiteId) =>
             /\ LoopDone => Len(attempts) >= k
             /\ Len(attempts) >= k =>
                   /\ attempts[j].topic = attempts[k].topic
                   /\ attempts[j].payload = MarshalLatency(latencyMetrics[j])
                   /\ attempts[k].payload = MarshalLatency(latencyMetrics[k])
    /\ LoopDone =>
          \A k \in 1..Len(attempts) :
            (\A m \in (k + 1)..Len(attempts) : attempts[m].topic # attempts[k].topic)
              => \A m \in (k + 1)..Len(latencyMetrics) :
                    latencyMetrics[m].SiteId # latencyMetrics[k].SiteId

\* Site c twice in one envelope, with different newest periods: two
\* attempts on one topic, the one of the later series last
C16_Witness ==
    /\ LoopDone
    /\ Len(attempts) = 2
    /\ attempts[1].topic = attempts[2].topic
    /\ attempts[1].payload.siteId = "c"
    /\ attempts[1].payload.timestamp = "t1"
    /\ attempts[2].payload.timestamp = "t2"

\* C17: every message handed to the broker client, by PublishLatency or by
\* the legacy Publish, has QoS 0 and the retained flag off.
C17_QosZeroNotRetained ==
    \A k \in 1..Len(attempts) :
       /\ attempts[k].qos = 0
       /\ attempts[k].retained = FALSE

\* A whole envelope of two series is in flight on the base topic
C17_Witness ==
    /\ legacy
    /\ pc = "legacyPublishing"
    /\ Len(attempts) = 1
    /\ attempts[1].topic = MqttTopic
    /\ Len(attempts[1].payload.data) = 2
    /\ attempts[1].qos = 0

\* The state of the runner: 0 Idle (Run has not created its ticker),
\* 1 Running, 2 ShuttingDown (the Done case was taken), 3 Stopped
Phase(p) ==
    CASE p \in {"main", "fatal", "run"} -> 0
      [] p \in {"shutdown", "returning"} -> 2
      [] p \in {"returned", "exited"} -> 3
      [] OTHER -> 1

\* C18 as stated: the state never goes backwards, and on shutdown the
\* ticker is stopped before the broker is disconnected, which is before
\* Run returns.
C18_TimerStoppedBeforeDisconnect ==
    /\ [][Phase(pc') >= Phase(pc)]_vars
    /\ [](disconnects > 0 => ticker = "stopped")
    /\ [](runResult # "none" => disconnects = 1)

\* C18: the state of the runner never goes backwards and Stopped is
\* final.  On shutdown the broker is disconnected first, with the ticker
\* still running; the ticker is stopped by the deferred ticker.Stop() as
\* Run returns nil, and only then has the caller control again.
C18_DisconnectThenStopThenReturn ==
    /\ [][Phase(pc') >= Phase(pc)]_vars
    /\ [](Phase(pc) = 2 => (ctxDone /\ ticker = "running" /\ runResult = "none"))
    /\ [](disconnects > 0 <=> pc \in {"returning", "returned", "exited"})
    /\ [](Phase(pc) = 3 =>
            /\ ticker = "stopped"
            /\ disconnects = 1
            /\ runResult = "nil"
            /\ active = 0)
    /\ [][ticker' # ticker /\ ticker' = "stopped" =>
            /\ disconnects = 1
            /\ ~connected
            /\ runResult = "none"
            /\ runResult' = "nil"]_vars

\* The broker is disconnected and the ticker still runs
C18_Witness ==
    /\ pc = "returning"
    /\ disconnects = 1
    /\ ~connected
    /\ ticker = "running"
    /\ runResult = "none"

\* C19: Run goes from its start straight into one cycle, cancelled context
\* or not: the select is not reached before that cycle is over, with no
\* tick fired there is exactly that one cycle, every later cycle starts from
\* a tick taken by the select, and the initial cycle ends in the select of
\* the loop with the ticker running whether it returned nil or an error.
C19_InitialCycleBeforeLoop ==
    /\ [](cycles = 0 => pc \in {"main", "fatal", "run", "cycle"})
    /\ [](pc \in {"select", "parked", "shutdown"} => (cycles >= 1 /\ active = 0))
    /\ [](ticksFired = 0 => cycles <= 1)
    /\ [][pc = "run" /\ pc' # pc => pc' = "cycle" /\ cycles = 0]_vars
    /\ [][cycles = 0 /\ cycles' # cycles =>
            /\ cycles' = 1
            /\ pc = "cycle"
            /\ pc' = "fetching"]_vars
    /\ [][pc' = "cycle" /\ pc # "cycle" /\ pc # "run" =>
            /\ cycles >= 1
            /\ \/ pc = "select" /\ tickPending
               \/ pc = "parked" /\ ticksFired' = ticksFired + 1]_vars
    /\ [][cycles = 1 /\ active = 1 /\ active' = 0 =>
            /\ pc' = "select"
            /\ cycleErr' \in {"nil", "error"}
            /\ ticker' = "running"
            /\ runResult' = "none"]_vars

\* The initial cycle failed and the runner waits for the first tick
C19_Witness ==
    /\ cycles = 1
    /\ cycleErr = "error"
    /\ pc = "parked"
    /\ ticksFired = 0
    /\ ~ctxDone
    /\ ticker = "running"

\* C20: GetISPMetrics returns an envelope only for a 200 answer whose
\* body decodes, and then that envelope; a non-200 status, a transport
\* failure and a decode failure each make it return an error.  Whatever
\* the error, fetchAndPublishMetrics does the same: no extraction, no publish
\* attempt, an error returned to Run, which goes on to its select.
C20_FetchFailuresAlike ==
    /\ [][pc = "fetching" /\ pc' # pc =>
            /\ fetchErr' = "none" =>
                  /\ resp.kind = "ok"
                  /\ metrics' = resp.body
                  /\ pc' = "extract"
            /\ resp.kind \in FetchFailureKinds => fetchErr' # "none"
            /\ (resp.kind \in FetchFailureKinds /\ ~ctxDone) => fetchErr' = resp.kind
            /\ fetchErr' # "none" =>
                  /\ cycleErr' = "error"
                  /\ metrics' = NilMetrics
                  /\ latencyMetrics' = << >>
                  /\ attempts' = << >>
                  /\ active' = 0
                  /\ runResult' = "none"
                  /\ pc' = "select"]_vars
    /\ [](fetchErr # "none" =>
            /\ cycleErr = "error" \/ pc = "cycle"
            /\ metrics = NilMetrics
            /\ attempts = << >>)

\* The body of a 200 answer did not decode: the cycle failed without a
\* publish attempt and the runner is in its select
C20_Witness ==
    /\ fetchErr = "decode"
    /\ cycleErr = "error"
    /\ attempts = << >>
    /\ pc = "select"
    /\ ~ctxDone

\* C21: every cycle calls httpClient.Do exactly once, whatever the answer:
\* the count of requests is the count of cycles, a request that failed
\* ends the cycle at once with no second request, and the next request is
\* the one of the cycle of the next tick taken by the select.
C21_OneRequestPerCycle ==
    /\ [](requests = cycles)
    /\ [](pc = "fetching" <=> resp # NoResponse)
    /\ [][requests' # requests =>
            /\ requests' = requests + 1
            /\ cycles' = cycles + 1
            /\ pc = "cycle"
            /\ active = 0]_vars
    /\ [][pc = "fetching" /\ fetchErr' # "none" =>
            /\ requests' = requests
            /\ resp' = NoResponse
            /\ active' = 0
            /\ pc' = "select"]_vars
    /\ [][pc' = "cycle" /\ pc # "cycle" /\ cycleErr = "error" =>
            \/ pc = "select" /\ tickPending
            \/ pc = "parked" /\ ticksFired' = ticksFired + 1]_vars

\* The fetch of the first cycle failed and the second cycle, started by a
\* tick, has its own single request in flight
C21_Witness ==
    /\ cycles = 2
    /\ requests = 2
    /\ prevCycleErr = "error"
    /\ pc = "fetching"
    /\ resp.kind = "ok"

\* C22: the extraction stamps every record of the batch with the time of
\* the extraction, before any publish attempt of the cycle exists; the
\* batch is not touched afterwards, so the publishedAt a publish sends is
\* the one of the extraction, at or before the start of that publish,
\* whatever the timestamp of the record is.
C22_StampedAtExtraction ==
    /\ [][pc = "extract" /\ pc' # pc =>
            /\ attempts = << >>
            /\ attempts' = << >>
            /\ \A k \in 1..Len(latencyMetrics') :
                  /\ latencyMetrics'[k].PublishedAt = Now
                  /\ latencyMetrics'[k].Timestamp \in {"t1", "t2"}]_vars
    /\ [](\A k \in 1..Len(latencyMetrics) :
            /\ latencyMetrics[k].PublishedAt <= Now
            /\ latencyMetrics[k].PublishedAt = latencyMetrics[1].PublishedAt)
    /\ [][latencyMetrics # << >> /\ latencyMetrics' # << >> =>
            latencyMetrics' = latencyMetrics]_vars
    /\ [][Len(attempts') > Len(attempts) =>
            /\ attempts'[idx].payload.publishedAt = latencyMetrics[idx].PublishedAt
            /\ attempts'[idx].payload.publishedAt <= Now
            /\ attempts'[idx].payload.timestamp = latencyMetrics[idx].Timestamp]_vars

\* A batch of two records was stamped, a tick has fired since, and the
\* second publish is in flight with the time of the extraction
C22_Witness ==
    /\ pc = "publishing"
    /\ Len(attempts) = 2
    /\ attempts[2].result = "inflight"
    /\ attempts[1].payload.publishedAt = 0
    /\ attempts[2].payload.publishedAt = 0
    /\ Now = 1
    /\ cycles = 1

\* C23: the extraction step changes nothing but the batch (and the place
\* of the runner in the cycle): the envelope is the same after it, no
\* request, publish attempt, connection or counter is touched, and the
\* batch is the value extractLatestLatencyMetrics has for that envelope and
\* that time, so the same two inputs give the same records.
C23_ExtractIsPure ==
    /\ [][pc = "extract" /\ pc' # pc =>
            /\ metrics' = metrics
            /\ latencyMetrics' = extractLatestLatencyMetrics(metrics, Now)
            /\ UNCHANGED << cfgVars, mainVars, connected, envVars, tickVars,
                            cycles, requests, active, resp, ctxAtStart,
                            fetchErr, attempts, cycleErr, prevCycleErr,
                            disconnects, runResult >>]_vars
    /\ [](Extracted =>
            \A k \in 1..Len(latencyMetrics) :
               latencyMetrics =
                  extractLatestLatencyMetrics(metrics, latencyMetrics[k].PublishedAt))

\* An envelope whose two series have two periods each is the same after
\* the extraction of its two records
C23_Witness ==
    /\ Extracted
    /\ Len(metrics.Data) = 2
    /\ Len(metrics.Data[1].Periods) = 2
    /\ Len(metrics.Data[2].Periods) = 2
    /\ Len(latencyMetrics) = 2

\* C24: in the whole-envelope generation a cycle whose fetch succeeded
\* makes one publish attempt and no more, on the base topic itself, with
\* the marshalled envelope of that fetch as payload; a cycle whose fetch
\* failed makes none; the cycle returns an error when the fetch or the
\* publish failed and nil otherwise.
C24_LegacyOnePublish ==
    /\ [](Len(attempts) <= 1)
    /\ [](attempts # << >> =>
            /\ pc = "legacyPublishing"
            /\ fetchErr = "none"
            /\ metrics # NilMetrics
            /\ attempts[1].topic = MqttTopic
            /\ attempts[1].payload = MarshalMetrics(metrics))
    /\ [][pc = "fetching" /\ pc' # pc =>
            IF fetchErr' = "none"
              THEN /\ metrics' = resp.body
                   /\ pc' = "extract"
              ELSE /\ attempts' = << >>
                   /\ cycleErr' = "error"
                   /\ pc' = "select"]_vars
    /\ [][pc = "extract" /\ pc' # pc =>
            /\ pc' = "legacyPublishing"
            /\ metrics' = metrics
            /\ Len(attempts') = 1]_vars
    /\ [][pc = "legacyPublishing" /\ pc' # pc =>
            /\ pc' = "select"
            /\ active' = 0
            /\ cycleErr' = IF attempts[1].brokerOk THEN "nil" ELSE "error"]_vars

\* The envelope was fetched, its publish on a/b failed and the cycle
\* returned an error
C24_Witness ==
    /\ legacy
    /\ MqttTopic = "a/b"
    /\ fetchErr = "none"
    /\ cycleErr = "error"
    /\ pc = "select"

\* C25: a cycle returns an error exactly when its fetch failed.  A cycle
\* that got through the publish loop returns nil whatever the publishes
\* gave, all of them failed included, and the sites_published it logs is
\* the length of the batch, which is the number of attempts, not the
\* number of publishes that succeeded.
C25_CycleFailsIffFetchFailed ==
    /\ [](cycleErr = "error" => (fetchErr # "none" /\ attempts = << >>))
    /\ [](cycleErr = "nil" => fetchErr = "none")
    /\ [][active = 1 /\ active' = 0 =>
            /\ cycleErr' \in {"nil", "error"}
            /\ cycleErr' = "error" <=> fetchErr' # "none"]_vars
    /\ [][pc = "publish" /\ pc' # pc /\ pc' # "publishing" =>
            /\ pc' = "select"
            /\ cycleErr' = "nil"
            /\ SitesPublished = Len(latencyMetrics)
            /\ SitesPublished = Len(attempts)
            /\ runResult' = "none"]_vars

\* Both publishes of a batch of two failed and the loop is over
C25_Witness ==
    /\ LoopDone
    /\ Len(latencyMetrics) = 2
    /\ Len(attempts) = 2
    /\ attempts[1].result = "err"
    /\ attempts[2].result = "err"
    /\ SitesPublished = 2

\* C26 as stated: a cycle started with a cancelled ctx makes no publish
\* attempt, and every fetch that yields an envelope (and so every publish
\* attempt) is one that completed while ctx was not cancelled.
C26_FetchCompletedUncancelled ==
    /\ [](ctxAtStart => attempts = << >>)
    /\ [][pc = "fetching" /\ pc' = "extract" => ~ctxDone]_vars

\* C26: a cycle that is started when ctx is already cancelled (the select
\* took a buffered tick although Done was ready, or cancel() came before
\* the initial cycle) fails in its fetch with the context error and makes
\* no publish attempt: every publish attempt is of a cycle that started
\* with a live context and whose fetch returned an envelope, be it that
\* cancel() came while that fetch was in flight.
C26_CancelledCycleNoPublish ==
    /\ [](ctxAtStart =>
            /\ attempts = << >>
            /\ latencyMetrics = << >>
            /\ metrics = NilMetrics
            /\ pc \notin {"extract", "publish", "publishing"})
    /\ [](attempts # << >> => (~ctxAtStart /\ fetchErr = "none"))
    /\ [][pc = "cycle" /\ ctxDone /\ pc' # pc => ctxAtStart']_vars
    /\ [][pc = "fetching" /\ ctxAtStart /\ pc' # pc =>
            /\ fetchErr' = "canceled"
            /\ cycleErr' = "error"
            /\ attempts' = << >>
            /\ pc' = "select"]_vars

\* cancel() came before the initial cycle, whose fetch of an answer that
\* would have been a 200 failed; the runner is back in its select
C26_Witness ==
    /\ cycles = 1
    /\ ctxAtStart
    /\ cancelPc \in {"run", "cycle"}
    /\ fetchErr = "canceled"
    /\ cycleErr = "error"
    /\ pc = "select"

\* C27: once Disconnect has been called, the runner is on its way out of
\* Run: no cycle, request or publish attempt is in progress and none is
\* started afterwards, whatever ticks and signals still arrive; a publish
\* attempt is only ever started on the connected, not yet disconnected
\* client.
C27_NoUseAfterDisconnect ==
    /\ [](disconnects > 0 =>
            /\ pc \in {"returning", "returned", "exited"}
            /\ active = 0
            /\ resp = NoResponse
            /\ attempts = << >>)
    /\ [][disconnects > 0 =>
            /\ cycles' = cycles
            /\ requests' = requests
            /\ resp' = resp
            /\ attempts' = attempts]_vars
    /\ [][Len(attempts') > Len(attempts) \/ requests' # requests =>
            /\ connected
            /\ disconnects = 0]_vars

\* The process has exited after the Disconnect with a tick left in the
\* buffer of the ticker, which no cycle took
C27_Witness ==
    /\ disconnects = 1
    /\ ~connected
    /\ tickPending
    /\ pc = "exited"
    /\ cycles = 2

\* C28: Disconnect is called at most once, by the Done case of the select
\* and so only after cancel(); a step in which a fetch returns or a publish
\* attempt starts or returns neither calls it nor leads to the Done case;
\* a signal that arrives after the signal goroutine has made its one
\* cancel() stays in sigChan and changes nothing else.
C28_DisconnectOnceOnShutdown ==
    /\ [](disconnects <= 1)
    /\ [](disconnects > 0 => (ctxDone /\ handlerPc = "done"))
    /\ [][disconnects' # disconnects =>
            /\ disconnects = 0
            /\ disconnects' = 1
            /\ ctxDone
            /\ pc = "shutdown"]_vars
    /\ [][(pc' # pc /\ pc \in {"fetching", "publish", "publishing"}) =>
            /\ pc' \notin {"shutdown", "returning", "returned"}
            /\ disconnects' = disconnects]_vars
    /\ [][handlerPc = "done" /\ sigChan' # sigChan =>
            /\ sigChan' = 1
            /\ UNCHANGED << pc, ctxDone, connected, disconnects, cycleVars,
                            runResult >>]_vars
    /\ [][handlerPc = "done" => handlerPc' = "done"]_vars

\* A second signal came after the shutdown had begun: it is still in
\* sigChan when the process has exited after its one Disconnect
C28_Witness ==
    /\ handlerPc = "done"
    /\ sigChan = 1
    /\ disconnects = 1
    /\ pc = "exited"
    /\ exitCode = 0

\* C29: the ticker exists from before the initial cycle and holds at most
\* one tick: a tick that fires while one is buffered is dropped.  Every
\* cycle but the initial one takes one tick, so the cycles started, the
\* one about to start and the buffered tick together never exceed one plus
\* the ticks fired.
C29_TicksCoalesced ==
    /\ [](cycles <= 1 + ticksFired)
    /\ [](cycles >= 1 => ticker # "none")
    /\ [](ticker # "none" =>
            cycles + (IF pc = "cycle" THEN 1 ELSE 0)
                   + (IF tickPending THEN 1 ELSE 0) <= 1 + ticksFired)
    /\ [][ticksFired' # ticksFired /\ tickPending =>
            /\ tickPending'
            /\ pc' = pc
            /\ cycles' = cycles]_vars
    /\ [][tickPending /\ ~tickPending' =>
            /\ pc = "select"
            /\ pc' = "cycle"
            /\ ticksFired' = ticksFired]_vars

\* Two ticks fired during the initial cycle; one cycle followed and the
\* runner is blocked in the select with no tick left
C29_Witness ==
    /\ ticksFired = 2
    /\ cycles = 2
    /\ pc = "parked"
    /\ ~tickPending
    /\ ~ctxDone
====
